---- MODULE Spec2Model ----
(***************************************************************************)
(* github-to-omnifocus: the reconciliation engine (package delta), the     *)
(* keyed-collection builder (toSet) and the issue category of sync_github. *)
(*                                                                         *)
(* Strings are sequences of byte values, so that strings.ToLower,          *)
(* strings.SplitN, string concatenation and the byte-wise ordering used by *)
(* slices.Sorted are computed rather than assumed.                         *)
(***************************************************************************)
EXTENDS Integers, Sequences, FiniteSets, TLC

(***************************************************************************)
(* Bounds of the model.                                                    *)
(***************************************************************************)
\* most labels on one GitHub issue
MaxLabels == 1
\* most tags on one OmniFocus task
MaxTaskTags == 3
\* most entries of the configured ignore-list
MaxIgnore == 1
\* longest list handed to toSet in SpecToSet
MaxList == 3
\* longest task name handed to Task.Key in SpecKey
MaxName == 4
\* number of entries of the configuration file in SpecRun
MaxEntries == 2

(***************************************************************************)
(* String literals (byte sequences).                                       *)
(***************************************************************************)
\* ""
EmptyStr == << >>
\* " "
Space == <<32>>
\* "\t"
Tab == <<9>>
\* "a"
LetterA == <<97>>
\* "a/b"
RepoAB == <<97, 47, 98>>
\* "a/b#1"
KeyA == <<97, 47, 98, 35, 49>>
\* "a/b#2"
KeyB == <<97, 47, 98, 35, 50>>
\* "fix"
TitleFix == <<102, 105, 120>>
\* "bug"
TagBugLower == <<98, 117, 103>>
\* "Bug"
TagBugMixed == <<66, 117, 103>>
\* "assigned"
TagAssignedLower == <<97, 115, 115, 105, 103, 110, 101, 100>>
\* "Assigned"
TagAssignedMixed == <<65, 115, 115, 105, 103, 110, 101, 100>>
\* "ASSIGNED"
TagAssignedUpper == <<65, 83, 83, 73, 71, 78, 69, 68>>
\* "v1"
MilestoneV1 == <<118, 49>>
\* "milestone: "
MilestonePrefix == <<109, 105, 108, 101, 115, 116, 111, 110, 101, 58, 32>>
\* "github"
AppTag == <<103, 105, 116, 104, 117, 98>>

(***************************************************************************)
(* Generic sequence helpers.                                               *)
(***************************************************************************)
\* all sequences over S of length at most n
SeqsUpTo(S, n) == UNION {[1..m -> S] : m \in 0..n}

\* all orders in which a Go map range may visit the key set K
Orders(K) ==
    {o \in [1..Cardinality(K) -> K] : \A i, j \in 1..Cardinality(K) : i # j => o[i] # o[j]}

\* the elements of a sequence
Range(s) == {s[i] : i \in 1..Len(s)}

(***************************************************************************)
(* Go string primitives.                                                   *)
(***************************************************************************)
\* unicode.ToLower on one ASCII byte
LowerByte(c) == IF c >= 65 /\ c <= 90 THEN c + 32 ELSE c

\* strings.ToLower
StringsToLower(s) == [i \in 1..Len(s) |-> LowerByte(s[i])]

\* strings.Compare / cmp.Compare on strings: byte-wise lexicographic order
RECURSIVE CmpString(_, _)
CmpString(a, b) ==
    IF a = << >> /\ b = << >> THEN 0
    ELSE IF a = << >> THEN -1
    ELSE IF b = << >> THEN 1
    ELSE IF Head(a) < Head(b) THEN -1
    ELSE IF Head(a) > Head(b) THEN 1
    ELSE CmpString(Tail(a), Tail(b))

\* the name itself, without any split
SplitFirstWhole(s) == s

\* strings.SplitN(s, " ", 2)[0]: the text before the first space, or all of s
RECURSIVE SplitFirst(_)
SplitFirst(s) ==
    IF s = << >> THEN << >>
    ELSE IF Head(s) = 32 THEN << >>
    ELSE <<Head(s)>> \o SplitFirst(Tail(s))

\* slices.Contains
SlicesContains(list, s) == \E i \in 1..Len(list) : list[i] = s

\* insertion of one string into a sorted sequence of strings
RECURSIVE InsertSorted(_, _)
InsertSorted(x, sorted) ==
    IF sorted = << >> THEN <<x>>
    ELSE IF CmpString(x, Head(sorted)) <= 0 THEN <<x>> \o sorted
    ELSE <<Head(sorted)>> \o InsertSorted(x, Tail(sorted))

\* slices.Sorted: the strings of s in ascending order
RECURSIVE SlicesSorted(_)
SlicesSorted(s) ==
    IF s = << >> THEN << >> ELSE InsertSorted(Head(s), SlicesSorted(Tail(s)))

\* slices.Compare on two sequences of strings
RECURSIVE SlicesCompare(_, _)
SlicesCompare(s1, s2) ==
    IF s1 = << >> /\ s2 = << >> THEN 0
    ELSE IF s1 = << >> THEN -1
    ELSE IF s2 = << >> THEN 1
    ELSE IF CmpString(Head(s1), Head(s2)) # 0 THEN CmpString(Head(s1), Head(s2))
    ELSE SlicesCompare(Tail(s1), Tail(s2))

(***************************************************************************)
(* package gh: GitHubItem.                                                 *)
(***************************************************************************)
\* a GitHubItem (the display-only fields HTMLURL, APIURL and ID are left out)
GitHubItem(k, title, labels, repo, milestone) ==
    [K |-> k, Title |-> title, Labels |-> labels, Repo |-> repo, Milestone |-> milestone]

\* GitHubItem.GetTags: the labels, then the repository, then the milestone tag
ItemGetTags(item) ==
    IF item.Milestone # EmptyStr
    THEN item.Labels \o <<item.Repo>> \o <<MilestonePrefix \o item.Milestone>>
    ELSE item.Labels \o <<item.Repo>>

\* GitHubItem.Key
ItemKey(item) == item.K

(***************************************************************************)
(* package omnifocus: Task.                                                *)
(***************************************************************************)
\* a Task as TasksForQuery returns it
Task(id, name, completed, tags) ==
    [ID |-> id, Name |-> name, Completed |-> completed, Tags |-> tags]

\* Task.Key: the leading space-delimited token of the task's name
TaskKey(t) == SplitFirst(t.Name)

\* Task.GetTags
TaskGetTags(t) == t.Tags

(***************************************************************************)
(* package delta.                                                          *)
(***************************************************************************)
\* OperationType
Add == 1
Remove == 2

\* whether a Keyed value is a Task (dynamic type behind the Keyed interface)
IsTask(x) == "Name" \in DOMAIN x

\* Keyed.Key, dispatched on the dynamic type
Key(x) == IF IsTask(x) THEN TaskKey(x) ELSE ItemKey(x)

\* Keyed.GetTags, dispatched on the dynamic type
GetTags(x) == IF IsTask(x) THEN TaskGetTags(x) ELSE ItemGetTags(x)

\* the dynamic type of the value an interface holds: toSet and Delta store
\* the elements of []gh.GitHubItem and []omnifocus.Task by value
DynType(x) == IF IsTask(x) THEN "omnifocus.Task" ELSE "gh.GitHubItem"

\* a type assertion x.(T) to a concrete type T holds only when the dynamic
\* type of x is T itself; a value type is not its pointer type
TypeAssert(x, T) == DynType(x) = T

\* Operation{Type, Item}
Operation(type, item) == [Type |-> type, Item |-> item]

\* lower without the call of strings.ToLower
lowerIdentity(itr) == itr

\* lower: strings.ToLower applied to every element of the iterator
lower(itr) == [i \in 1..Len(itr) |-> StringsToLower(itr[i])]

\* toLower: strings.ToLower applied to every element of the slice
toLower(s) == [i \in 1..Len(s) |-> StringsToLower(s[i])]

\* deleteFunc that yields every element, deleting none
deleteFuncKeepAll(itr, ignoreTags) == itr

\* deleteFunc with Delta's predicate slices.Contains(ignoreTags, s): the
\* elements of the iterator that are not in ignoreTags, in order
RECURSIVE deleteFunc(_, _)
deleteFunc(itr, ignoreTags) ==
    IF itr = << >> THEN << >>
    ELSE IF SlicesContains(ignoreTags, Head(itr))
         THEN deleteFunc(Tail(itr), ignoreTags)
         ELSE <<Head(itr)>> \o deleteFunc(Tail(itr), ignoreTags)

\* cTags := slices.Sorted(deleteFunc(lower(c.GetTags()), ...)); ignoreTags is
\* the lower-cased ignore-list
CTags(c, ignoreTags) == SlicesSorted(deleteFunc(lower(GetTags(c)), ignoreTags))

\* vTags := slices.Sorted(lower(v.GetTags()))
VTags(v) == SlicesSorted(lower(GetTags(v)))

\* the tag test without slices.Sorted on either side
TagsDifferUnsorted(v, c, ignoreTags) ==
    SlicesCompare(lower(GetTags(v)), deleteFunc(lower(GetTags(c)), ignoreTags)) # 0

\* the tag test replaced by true: every shared key is re-created
TagsDifferAlways(v, c, ignoreTags) == TRUE

\* the tag test with the ignore-list applied to the desired side as well
TagsDifferBothSides(v, c, ignoreTags) ==
    SlicesCompare(SlicesSorted(deleteFunc(lower(GetTags(v)), ignoreTags)),
                  CTags(c, ignoreTags)) # 0

\* the test slices.Compare(vTags, cTags) != 0
TagsDiffer(v, c, ignoreTags) == SlicesCompare(VTags(v), CTags(c, ignoreTags)) # 0

\* the changed-tags case appending the Remove alone
ChangedOpsRemoveOnly(c, v) == <<Operation(Remove, c)>>

\* the changed-tags case appending the Add before the Remove
ChangedOpsAddFirst(c, v) == <<Operation(Add, v), Operation(Remove, c)>>

\* the two operations appended for a key whose tags changed
ChangedOps(c, v) == <<Operation(Remove, c), Operation(Add, v)>>

\* the first loop without the append for a key missing from current
DesiredOpsNoAdd(k, desired, current, ignoreTags) ==
    IF k \notin DOMAIN current
    THEN << >>
    ELSE IF TagsDiffer(desired[k], current[k], ignoreTags)
         THEN ChangedOps(current[k], desired[k])
         ELSE << >>

\* the first loop appending, for a key missing from current, an Operation
\* whose Type field is left at its zero value
DesiredOpsNoType(k, desired, current, ignoreTags) ==
    IF k \notin DOMAIN current
    THEN <<Operation(0, desired[k])>>
    ELSE IF TagsDiffer(desired[k], current[k], ignoreTags)
         THEN ChangedOps(current[k], desired[k])
         ELSE << >>

\* body of the first loop for one key k of desired
DesiredOps(k, desired, current, ignoreTags) ==
    IF k \notin DOMAIN current
    THEN <<Operation(Add, desired[k])>>
    ELSE IF TagsDiffer(desired[k], current[k], ignoreTags)
         THEN ChangedOps(current[k], desired[k])
         ELSE << >>

\* the second loop without its append
CurrentOpsNone(k, desired, current) == << >>

\* the second loop with the test on desired inverted
CurrentOpsInverted(k, desired, current) ==
    IF k \in DOMAIN desired THEN <<Operation(Remove, current[k])>> ELSE << >>

\* the second loop appending its Remove twice
CurrentOpsTwice(k, desired, current) ==
    IF k \notin DOMAIN desired
    THEN <<Operation(Remove, current[k]), Operation(Remove, current[k])>>
    ELSE << >>

\* body of the second loop for one key k of current
CurrentOps(k, desired, current) ==
    IF k \notin DOMAIN desired THEN <<Operation(Remove, current[k])>> ELSE << >>

\* for k, v := range desired, visiting the keys in the order dOrd
RECURSIVE DesiredPass(_, _, _, _)
DesiredPass(dOrd, desired, current, ignoreTags) ==
    IF dOrd = << >> THEN << >>
    ELSE DesiredOps(Head(dOrd), desired, current, ignoreTags)
         \o DesiredPass(Tail(dOrd), desired, current, ignoreTags)

\* for k, v := range current, visiting the keys in the order cOrd
RECURSIVE CurrentPass(_, _, _)
CurrentPass(cOrd, desired, current) ==
    IF cOrd = << >> THEN << >>
    ELSE CurrentOps(Head(cOrd), desired, current)
         \o CurrentPass(Tail(cOrd), desired, current)

\* Delta(desired, current, ignoreTags); dOrd and cOrd are the orders in which
\* the two range loops happen to visit the maps' keys
Delta(desired, current, ignoreTags, dOrd, cOrd) ==
    DesiredPass(dOrd, desired, current, toLower(ignoreTags))
    \o CurrentPass(cOrd, desired, current)

(***************************************************************************)
(* package main: toSet.                                                    *)
(***************************************************************************)
\* r := map[string]T{}
EmptyMap == [k \in {} |-> << >>]

\* toSet keeping the first element seen under a key instead of the last
RECURSIVE toSetFirstWins(_)
toSetFirstWins(l) ==
    IF l = << >> THEN EmptyMap
    ELSE LET r == toSetFirstWins(SubSeq(l, 1, Len(l) - 1))
             elem == l[Len(l)]
         IN [k \in DOMAIN r \cup {Key(elem)} |-> IF k \in DOMAIN r THEN r[k] ELSE elem]

\* toSet: r[elem.Key()] = elem for every element in sequence order
RECURSIVE toSet(_)
toSet(l) ==
    IF l = << >> THEN EmptyMap
    ELSE LET r == toSet(SubSeq(l, 1, Len(l) - 1))
             elem == l[Len(l)]
         IN [k \in DOMAIN r \cup {Key(elem)} |-> IF k = Key(elem) THEN elem ELSE r[k]]

(***************************************************************************)
(* Configuration (internal.GithubConfig) and the omnifocus gateway.        *)
(***************************************************************************)
\* c.AssignedTag: "assigned"
AssignedTag == TagAssignedLower

\* c.AssignedProject: "GH"
AssignedProject == <<71, 72>>

\* NewOmnifocusTask (DueDateMS stays unset: SetTaskmasterDueDate is false)
NewOmnifocusTask(project, name, tags, note) ==
    [ProjectName |-> project, Name |-> name, Tags |-> tags, Note |-> note]

\* a Gateway.AddIssue that names the task title, space, key
AddIssueTaskTitleFirst(t) ==
    LET tags == <<AppTag, AssignedTag, t.Repo>> \o t.Labels
    IN NewOmnifocusTask(
           AssignedProject,
           t.Title \o Space \o ItemKey(t),
           IF t.Milestone # EmptyStr
           THEN tags \o <<MilestonePrefix \o t.Milestone>>
           ELSE tags,
           EmptyStr)

\* a Gateway.AddIssue that attaches no milestone tag
AddIssueTaskNoMilestone(t) ==
    NewOmnifocusTask(
        AssignedProject,
        ItemKey(t) \o Space \o t.Title,
        <<AppTag, AssignedTag, t.Repo>> \o t.Labels,
        EmptyStr)

\* the task Gateway.AddIssue builds for a GitHub item: tags are the app tag,
\* the assigned tag, the repository, the labels and the milestone tag
AddIssueTask(t) ==
    LET tags == <<AppTag, AssignedTag, t.Repo>> \o t.Labels
    IN NewOmnifocusTask(
           AssignedProject,
           ItemKey(t) \o Space \o t.Title,
           IF t.Milestone # EmptyStr
           THEN tags \o <<MilestonePrefix \o t.Milestone>>
           ELSE tags,
           EmptyStr)

\* c.ReviewTag: "review"
ReviewTag == <<114, 101, 118, 105, 101, 119>>

\* c.ReviewProject: "GH", the project of the assigned issues as well
ReviewProject == <<71, 72>>

\* c.PendingChangesTag: "pending"
PendingChangesTag == <<112, 101, 110, 100, 105, 110, 103>>

\* c.PendingChangesProject: "PC"
PendingChangesProject == <<80, 67>>

\* c.NotificationTag: "notification"
NotificationTag == <<110, 111, 116, 105, 102, 105, 99, 97, 116, 105, 111, 110>>

\* c.NotificationsProject: "NT"
NotificationsProject == <<78, 84>>

\* the task Gateway.AddPR builds: app tag, review tag, labels, repository
AddPRTask(t) ==
    NewOmnifocusTask(ReviewProject, ItemKey(t) \o Space \o t.Title,
                     <<AppTag, ReviewTag>> \o t.Labels \o <<t.Repo>>, EmptyStr)

\* the task Gateway.AddAuthoredPR builds: app tag, pending tag, labels, repository
AddAuthoredPRTask(t) ==
    NewOmnifocusTask(PendingChangesProject, ItemKey(t) \o Space \o t.Title,
                     <<AppTag, PendingChangesTag>> \o t.Labels \o <<t.Repo>>, EmptyStr)

\* the task Gateway.AddNotification builds: app tag, notification tag, repository
AddNotificationTask(t) ==
    NewOmnifocusTask(NotificationsProject, ItemKey(t) \o Space \o t.Title,
                     <<AppTag, NotificationTag, t.Repo>>, EmptyStr)

\* TaskQuery{ProjectName, Tags}
TaskQuery(project, tags) == [ProjectName |-> project, Tags |-> tags]

\* a task of the OmniFocus document: what TasksForQuery reports of it, and
\* the project that holds it
OFTask(id, name, completed, tags, project) ==
    [ID |-> id, Name |-> name, Completed |-> completed, Tags |-> tags, Project |-> project]

\* the "task must have all tags" filter of tasksForProjectWithTag
HasAllTags(task, tags) ==
    \A i \in 1..Len(tags) : \E j \in 1..Len(task.Tags) : task.Tags[j] = tags[i]

\* tasksForProjectWithTag without the filter on the tags
TasksForQueryAnyTags(db, query) ==
    LET found == SelectSeq(db, LAMBDA t : t.Project = query.ProjectName /\ t.Completed = FALSE)
    IN [i \in 1..Len(found) |->
           Task(found[i].ID, found[i].Name, found[i].Completed, found[i].Tags)]

\* tasksForProjectWithTag: the tasks of the named project that are not
\* completed and carry every tag of the query, as {id, name, completed, tags}
TasksForQuery(db, query) ==
    LET found == SelectSeq(db, LAMBDA t : /\ t.Project = query.ProjectName
                                          /\ t.Completed = FALSE
                                          /\ HasAllTags(t, query.Tags))
    IN [i \in 1..Len(found) |->
           Task(found[i].ID, found[i].Name, found[i].Completed, found[i].Tags)]

\* the query of Gateway.GetIssues, GetPRs, GetAuthoredPRs, GetNotifications
\* for the categories 1 to 4
CategoryQuery(c) ==
    CASE c = 1 -> TaskQuery(AssignedProject, <<AppTag, AssignedTag>>)
      [] c = 2 -> TaskQuery(ReviewProject, <<AppTag, ReviewTag>>)
      [] c = 3 -> TaskQuery(PendingChangesProject, <<AppTag, PendingChangesTag>>)
      [] c = 4 -> TaskQuery(NotificationsProject, <<AppTag, NotificationTag>>)

\* the task og.AddIssue, AddPR, AddAuthoredPR, AddNotification builds for
\* the categories 1 to 4
CategoryAddTask(c, t) ==
    CASE c = 1 -> AddIssueTask(t)
      [] c = 2 -> AddPRTask(t)
      [] c = 3 -> AddAuthoredPRTask(t)
      [] c = 4 -> AddNotificationTask(t)

(***************************************************************************)
(* Inputs of one run.                                                      *)
(***************************************************************************)
\* label names GitHub may return
LabelPool == {TagBugMixed, TagAssignedLower}

\* milestone titles GitHub may return ("" is no milestone)
Milestones == {EmptyStr, MilestoneV1}

\* tag names a task may carry in OmniFocus
TaskTagPool == {TagBugLower, TagAssignedUpper, RepoAB}

\* entries the configured ignore-list may hold
IgnorePool == {TagAssignedMixed}

\* issues of repository a/b that GitHub may report: #1 with any labels and
\* milestone, #2 without labels
ItemsA == {GitHubItem(KeyA, TitleFix, l, RepoAB, m) :
              l \in SeqsUpTo(LabelPool, MaxLabels), m \in Milestones}
ItemsB == {GitHubItem(KeyB, TitleFix, << >>, RepoAB, EmptyStr)}

\* incomplete tasks OmniFocus may report: one for a/b#1 with any tags, one for
\* a/b#2 with or without the repository tag
TasksA == {Task("t1", KeyA \o Space \o TitleFix, FALSE, tags) :
              tags \in SeqsUpTo(TaskTagPool, MaxTaskTags)}
TasksB == {Task("t2", KeyB \o Space \o TitleFix, FALSE, tags) :
              tags \in {<< >>, <<RepoAB>>}}

\* lists holding at most one element of A followed by at most one of B
OptLists(A, B) ==
    {la \o lb : la \in {<< >>} \cup {<<a>> : a \in A},
                lb \in {<< >>} \cup {<<b>> : b \in B}}

\* what ghg.GetIssues may return
ItemLists == OptLists(ItemsA, ItemsB)

\* what og.GetIssues may return
TaskLists == OptLists(TasksA, TasksB)

\* the ignore-lists a configuration may hold
IgnoreLists == SeqsUpTo(IgnorePool, MaxIgnore)

(***************************************************************************)
(* State of one run of sync_github (issue category).                       *)
(***************************************************************************)
VARIABLES
    pc,             \* position in sync_github
    ignoreTags,     \* the configured ignore-list
    currentIssues,  \* currentState.Issues
    desiredIssues,  \* desiredState.Issues
    desired,        \* toSet(desiredState.Issues), first argument of Delta
    current,        \* toSet(currentState.Issues), second argument of Delta
    ops,            \* d, the result of Delta
    idx,            \* position of the range loop over d
    completed,      \* IDs of the tasks marked complete in OmniFocus
    created,        \* tasks created in OmniFocus, in creation order
    entry,          \* index of the configuration entry main is synchronising
    cat,            \* category sync_github is processing (1..4)
    of,             \* the tasks of the OmniFocus document
    github,         \* what GitHub holds for the user: the remote state
    currentState,   \* currentState of sync_github (OFCurrentState)
    desiredState,   \* desiredState of sync_github (GHDesiredState)
    got             \* retrievals that returned without error in this sync_github

\* the variables of a whole run of main, which one category's run leaves alone
runVars == <<entry, cat, of, github, currentState, desiredState, got>>

vars == <<pc, ignoreTags, currentIssues, desiredIssues, desired, current, ops, idx,
          completed, created, entry, cat, of, github, currentState, desiredState, got>>

\* OFCurrentState{} and GHDesiredState{}
EmptyOFState == [Issues |-> << >>, PRs |-> << >>, Notifications |-> << >>, AuthoredPRs |-> << >>]
EmptyGHState == [Issues |-> << >>, PRs |-> << >>, Notifications |-> << >>, AuthoredPRs |-> << >>]

\* the remote state with nothing in it
EmptyGitHub == [Issues |-> << >>, PRs |-> << >>, OpenPRs |-> << >>, Notifications |-> << >>]

\* the variables of a whole run when one category is looked at on its own
NoRun ==
    /\ entry = 1
    /\ cat = 1
    /\ of = << >>
    /\ github = EmptyGitHub
    /\ currentState = EmptyOFState
    /\ desiredState = EmptyGHState
    /\ got = 0

Init ==
    /\ pc = "start"
    /\ ignoreTags \in IgnoreLists
    /\ currentIssues = << >>
    /\ desiredIssues = << >>
    /\ desired = EmptyMap
    /\ current = EmptyMap
    /\ ops = << >>
    /\ idx = 1
    /\ completed = {}
    /\ created = << >>
    /\ NoRun

\* currentState, err := GetOFState(og), err == nil
GetOFState ==
    /\ pc = "start"
    /\ currentIssues' \in TaskLists
    /\ pc' = "ofState"
    /\ UNCHANGED <<ignoreTags, desiredIssues, desired, current, ops, idx, completed, created>>
    /\ UNCHANGED runVars

\* desiredState, err := GetGitHubState(ghg), err == nil
GetGitHubState ==
    /\ pc = "ofState"
    /\ desiredIssues' \in ItemLists
    /\ pc' = "ghState"
    /\ UNCHANGED <<ignoreTags, currentIssues, desired, current, ops, idx, completed, created>>
    /\ UNCHANGED runVars

\* either retrieval returns an error: log.Fatal(err)
GetStateFails ==
    /\ pc \in {"start", "ofState"}
    /\ pc' = "fatal"
    /\ UNCHANGED <<ignoreTags, currentIssues, desiredIssues, desired, current, ops, idx,
                   completed, created>>
    /\ UNCHANGED runVars

\* d := delta.Delta(toSet(desiredState.Issues), toSet(currentState.Issues), ...)
ComputeDelta ==
    /\ pc = "ghState"
    /\ desired' = toSet(desiredIssues)
    /\ current' = toSet(currentIssues)
    /\ \E dOrd \in Orders(DOMAIN desired'), cOrd \in Orders(DOMAIN current') :
           ops' = Delta(desired', current', ignoreTags, dOrd, cOrd)
    /\ idx' = 1
    /\ pc' = "apply"
    /\ UNCHANGED <<ignoreTags, currentIssues, desiredIssues, completed, created>>
    /\ UNCHANGED runVars

\* d.Type == delta.Add: the payload is asserted to be a *gh.GitHubItem
\* (a failed assertion panics), then og.AddIssue creates the task or returns
\* an error, which ends the run in log.Fatal
ApplyAdd ==
    /\ pc = "apply"
    /\ idx <= Len(ops)
    /\ ops[idx].Type = Add
    /\ IF ~TypeAssert(ops[idx].Item, "*gh.GitHubItem")
       THEN /\ pc' = "panic"
            /\ UNCHANGED <<idx, created>>
       ELSE \E err \in BOOLEAN :
                IF err
                THEN /\ pc' = "fatal"
                     /\ UNCHANGED <<idx, created>>
                ELSE /\ created' = Append(created, AddIssueTask(ops[idx].Item))
                     /\ idx' = idx + 1
                     /\ pc' = pc
    /\ UNCHANGED <<ignoreTags, currentIssues, desiredIssues, desired, current, ops, completed>>
    /\ UNCHANGED runVars

\* d.Type == delta.Remove: the payload is asserted to be a *omnifocus.Task
\* (a failed assertion panics), then og.CompleteIssue marks the task complete
\* or returns an error, which ends the run in log.Fatal
ApplyRemove ==
    /\ pc = "apply"
    /\ idx <= Len(ops)
    /\ ops[idx].Type = Remove
    /\ IF ~TypeAssert(ops[idx].Item, "*omnifocus.Task")
       THEN /\ pc' = "panic"
            /\ UNCHANGED <<idx, completed>>
       ELSE \E err \in BOOLEAN :
                IF err
                THEN /\ pc' = "fatal"
                     /\ UNCHANGED <<idx, completed>>
                ELSE /\ completed' = completed \cup {ops[idx].Item.ID}
                     /\ idx' = idx + 1
                     /\ pc' = pc
    /\ UNCHANGED <<ignoreTags, currentIssues, desiredIssues, desired, current, ops, created>>
    /\ UNCHANGED runVars

\* the range loop over d is exhausted
Finish ==
    /\ pc = "apply"
    /\ idx > Len(ops)
    /\ pc' = "done"
    /\ UNCHANGED <<ignoreTags, currentIssues, desiredIssues, desired, current, ops, idx,
                   completed, created>>
    /\ UNCHANGED runVars

Next ==
    \/ GetOFState
    \/ GetGitHubState
    \/ GetStateFails
    \/ ComputeDelta
    \/ ApplyAdd
    \/ ApplyRemove
    \/ Finish

Spec == Init /\ [][Next]_vars

(***************************************************************************)
(* toSet on lists with repeated keys.                                      *)
(***************************************************************************)
\* tasks that share keys: two task IDs under each key
DupTasks == {Task(id, k \o Space \o TitleFix, FALSE, << >>) :
                id \in {"t1", "t2"}, k \in {KeyA, KeyB}}

\* items that share keys: two titles under each key
DupItems == {GitHubItem(k, title, << >>, RepoAB, EmptyStr) :
                k \in {KeyA, KeyB}, title \in {TitleFix, EmptyStr}}

\* the retrievals are over; one of the two lists is arbitrary
InitToSet ==
    /\ pc = "ghState"
    /\ ignoreTags = << >>
    /\ \/ currentIssues \in SeqsUpTo(DupTasks, MaxList) /\ desiredIssues = << >>
       \/ currentIssues = << >> /\ desiredIssues \in SeqsUpTo(DupItems, MaxList)
    /\ desired = EmptyMap
    /\ current = EmptyMap
    /\ ops = << >>
    /\ idx = 1
    /\ completed = {}
    /\ created = << >>
    /\ NoRun

NextToSet == ComputeDelta

SpecToSet == InitToSet /\ [][NextToSet]_vars

(***************************************************************************)
(* Task.Key on arbitrary task names.                                       *)
(***************************************************************************)
\* the bytes a task name is made of: a letter, the space and the tab
NameBytes == {LetterA[1], Space[1], Tab[1]}

\* the names a task may have in OmniFocus
TaskNames == SeqsUpTo(NameBytes, MaxName)

\* the retrievals are over; OmniFocus reported one task of any name, GitHub
\* reported nothing
InitKey ==
    /\ pc = "ghState"
    /\ ignoreTags = << >>
    /\ currentIssues \in {<<Task("t1", name, FALSE, << >>)>> : name \in TaskNames}
    /\ desiredIssues = << >>
    /\ desired = EmptyMap
    /\ current = EmptyMap
    /\ ops = << >>
    /\ idx = 1
    /\ completed = {}
    /\ created = << >>
    /\ NoRun

\* toSet calls elem.Key() on the task
NextKey == ComputeDelta

SpecKey == InitKey /\ [][NextKey]_vars

(***************************************************************************)
(* A whole run of main: every configuration entry, four categories each.   *)
(***************************************************************************)
\* the issue or pull request a/b#1 as GitHub reports it in any category
ItemA == GitHubItem(KeyA, TitleFix, << >>, RepoAB, EmptyStr)

\* the tasks the OmniFocus document may hold, in document order: one task
\* of the tool per category for a/b#1 (the first two share the project GH), a
\* task of the user in the project GH that lacks the app tag, and a completed
\* notification task of the tool
OFPool ==
    << OFTask("o1", KeyA \o Space \o TitleFix, FALSE,
              <<AppTag, AssignedTag, RepoAB>>, AssignedProject),
       OFTask("o2", KeyA \o Space \o TitleFix, FALSE,
              <<AppTag, ReviewTag, RepoAB>>, ReviewProject),
       OFTask("o3", KeyA \o Space \o TitleFix, FALSE,
              <<AppTag, PendingChangesTag, RepoAB>>, PendingChangesProject),
       OFTask("o4", KeyA \o Space \o TitleFix, FALSE,
              <<AppTag, NotificationTag, RepoAB>>, NotificationsProject),
       OFTask("f1", KeyB \o Space \o TitleFix, FALSE,
              <<AssignedTag, RepoAB>>, AssignedProject),
       OFTask("d4", KeyA \o Space \o TitleFix, TRUE,
              <<AppTag, NotificationTag, RepoAB>>, NotificationsProject) >>

\* the documents: every selection of tasks of the pool
OFDocuments ==
    {SelectSeq(OFPool, LAMBDA t : t.ID \in ids) : ids \in SUBSET {"o1", "o2", "o3", "o4", "f1", "d4"}}

\* the remote states: a/b#1 is or is not in each of the four categories
GitHubStates ==
    [Issues : {<< >>, <<ItemA>>}, PRs : {<< >>, <<ItemA>>},
     OpenPRs : {<< >>, <<ItemA>>}, Notifications : {<< >>, <<ItemA>>}]

\* the ignore-list that names the app tag and the four category tags
BookkeepingTags == <<AppTag, AssignedTag, ReviewTag, PendingChangesTag, NotificationTag>>

\* AddNewOmnifocusTask: the document gains the task
AddNewOmnifocusTask(db, task, id) ==
    Append(db, OFTask(id, task.Name, FALSE, task.Tags, task.ProjectName))

\* MarkOmnifocusTaskComplete: the task with t's ID becomes completed
MarkOmnifocusTaskComplete(db, t) ==
    [i \in 1..Len(db) |-> IF db[i].ID = t.ID THEN [db[i] EXCEPT !.Completed = TRUE] ELSE db[i]]

\* every category reading the issues of desiredState
DesiredOfIssues(c) == desiredState.Issues

\* the list of category c in desiredState and in currentState
DesiredOf(c) ==
    CASE c = 1 -> desiredState.Issues
      [] c = 2 -> desiredState.PRs
      [] c = 3 -> desiredState.AuthoredPRs
      [] c = 4 -> desiredState.Notifications
CurrentOf(c) ==
    CASE c = 1 -> currentState.Issues
      [] c = 2 -> currentState.PRs
      [] c = 3 -> currentState.AuthoredPRs
      [] c = 4 -> currentState.Notifications

\* main has loaded the configuration and enters sync_github for its first entry
InitRun ==
    /\ pc = "sync"
    /\ ignoreTags \in {<< >>, BookkeepingTags}
    /\ currentIssues = << >>
    /\ desiredIssues = << >>
    /\ desired = EmptyMap
    /\ current = EmptyMap
    /\ ops = << >>
    /\ idx = 1
    /\ completed = {}
    /\ created = << >>
    /\ entry = 1
    /\ cat = 1
    /\ of \in OFDocuments
    /\ github \in GitHubStates
    /\ currentState = EmptyOFState
    /\ desiredState = EmptyGHState
    /\ got = 0

\* the variables a step of the run before the deltas leaves alone
deltaVars == <<ignoreTags, currentIssues, desiredIssues, desired, current, ops, idx,
               completed, created>>

\* ghg, err := gh.NewGitHubGateway(...): log.Fatal on an error
SyncNewGateway ==
    /\ pc = "sync"
    /\ \E err \in BOOLEAN : pc' = IF err THEN "fatal" ELSE "getOF"
    /\ UNCHANGED deltaVars
    /\ UNCHANGED runVars

\* the number of retrievals of GetOFState and of GetGitHubState
Retrievals == 4

\* GetOFState going on to the next query after an error, the list of the
\* failed query and of those after it left empty
SyncGetOFStateIgnoresError ==
    /\ pc = "getOF"
    /\ \E failAt \in 0..Retrievals :
           /\ currentState' =
                  [Issues |-> IF failAt = 1 THEN << >> ELSE TasksForQuery(of, CategoryQuery(1)),
                   PRs |-> IF failAt \in 1..2 THEN << >> ELSE TasksForQuery(of, CategoryQuery(2)),
                   Notifications |->
                       IF failAt \in 1..3 THEN << >> ELSE TasksForQuery(of, CategoryQuery(4)),
                   AuthoredPRs |->
                       IF failAt \in 1..4 THEN << >> ELSE TasksForQuery(of, CategoryQuery(3))]
           /\ got' = IF failAt = 0 THEN got + Retrievals ELSE got + failAt - 1
    /\ pc' = "getGH"
    /\ UNCHANGED deltaVars
    /\ UNCHANGED <<entry, cat, of, github, desiredState>>

\* currentState, err := GetOFState(og): the four queries in the order issues,
\* PRs, notifications, authored PRs; the query numbered failAt returns an
\* error (0: none does), GetOFState returns OFCurrentState{} and the error,
\* and sync_github ends in log.Fatal
SyncGetOFState ==
    /\ pc = "getOF"
    /\ \E failAt \in 0..Retrievals :
           IF failAt # 0
           THEN /\ pc' = "fatal"
                /\ currentState' = EmptyOFState
                /\ got' = got + failAt - 1
           ELSE /\ currentState' =
                       [Issues |-> TasksForQuery(of, CategoryQuery(1)),
                        PRs |-> TasksForQuery(of, CategoryQuery(2)),
                        Notifications |-> TasksForQuery(of, CategoryQuery(4)),
                        AuthoredPRs |-> TasksForQuery(of, CategoryQuery(3))]
                /\ got' = got + Retrievals
                /\ pc' = "getGH"
    /\ UNCHANGED deltaVars
    /\ UNCHANGED <<entry, cat, of, github, desiredState>>

\* GetGitHubState whose GetNotifications marks the threads it lists as read
SyncGetGitHubStateMarksRead ==
    /\ pc = "getGH"
    /\ desiredState' =
           [Issues |-> github.Issues,
            PRs |-> github.PRs,
            AuthoredPRs |-> github.OpenPRs,
            Notifications |-> github.Notifications]
    /\ github' = [github EXCEPT !.Notifications = << >>]
    /\ got' = got + Retrievals
    /\ pc' = "delta"
    /\ UNCHANGED deltaVars
    /\ UNCHANGED <<entry, cat, of, currentState>>

\* desiredState, err := GetGitHubState(ghg): GetIssues, GetPRs, GetOpenPRs,
\* GetNotifications, all of them reads; the retrieval numbered failAt returns
\* an error (0: none does), GetGitHubState returns GHDesiredState{} and the
\* error, and sync_github ends in log.Fatal
SyncGetGitHubState ==
    /\ pc = "getGH"
    /\ \E failAt \in 0..Retrievals :
           IF failAt # 0
           THEN /\ pc' = "fatal"
                /\ desiredState' = EmptyGHState
                /\ got' = got + failAt - 1
           ELSE /\ desiredState' =
                       [Issues |-> github.Issues,
                        PRs |-> github.PRs,
                        AuthoredPRs |-> github.OpenPRs,
                        Notifications |-> github.Notifications]
                /\ got' = got + Retrievals
                /\ pc' = "delta"
    /\ UNCHANGED deltaVars
    /\ UNCHANGED <<entry, cat, of, github, currentState>>

\* d := delta.Delta(toSet(desiredState.X), toSet(currentState.X), ...) for the
\* list X of the category
SyncDelta ==
    /\ pc = "delta"
    /\ desired' = toSet(DesiredOf(cat))
    /\ current' = toSet(CurrentOf(cat))
    /\ \E dOrd \in Orders(DOMAIN desired'), cOrd \in Orders(DOMAIN current') :
           ops' = Delta(desired', current', ignoreTags, dOrd, cOrd)
    /\ idx' = 1
    /\ pc' = "apply"
    /\ UNCHANGED <<ignoreTags, currentIssues, desiredIssues, completed, created>>
    /\ UNCHANGED runVars

\* the Add branch going on to the next operation when the conversion of the
\* payload or the gateway call fails
SyncAddSkipsFailure ==
    /\ pc = "apply"
    /\ idx <= Len(ops)
    /\ ops[idx].Type = Add
    /\ idx' = idx + 1
    /\ pc' = pc
    /\ UNCHANGED <<ignoreTags, currentIssues, desiredIssues, desired, current, ops, completed,
                   created>>
    /\ UNCHANGED runVars

\* d.Type == delta.Add in the loop of the category: the payload is asserted
\* to be a *gh.GitHubItem (a failed assertion panics), then og.AddIssue, AddPR,
\* AddAuthoredPR or AddNotification creates the task or returns an error,
\* which ends the run in log.Fatal
SyncAdd ==
    /\ pc = "apply"
    /\ idx <= Len(ops)
    /\ ops[idx].Type = Add
    /\ IF ~TypeAssert(ops[idx].Item, "*gh.GitHubItem")
       THEN /\ pc' = "panic"
            /\ UNCHANGED <<idx, created, of>>
       ELSE \E err \in BOOLEAN :
                IF err
                THEN /\ pc' = "fatal"
                     /\ UNCHANGED <<idx, created, of>>
                ELSE /\ created' = Append(created, CategoryAddTask(cat, ops[idx].Item))
                     /\ of' = AddNewOmnifocusTask(of, CategoryAddTask(cat, ops[idx].Item),
                                                  "n" \o ToString(Len(created) + 1))
                     /\ idx' = idx + 1
                     /\ pc' = pc
    /\ UNCHANGED <<ignoreTags, currentIssues, desiredIssues, desired, current, ops, completed>>
    /\ UNCHANGED <<entry, cat, github, currentState, desiredState, got>>

\* d.Type == delta.Remove in the loop of the category: the payload is
\* asserted to be a *omnifocus.Task (a failed assertion panics), then
\* og.CompleteIssue, CompletePR or CompleteNotification marks the task
\* complete or returns an error, which ends the run in log.Fatal
SyncRemove ==
    /\ pc = "apply"
    /\ idx <= Len(ops)
    /\ ops[idx].Type = Remove
    /\ IF ~TypeAssert(ops[idx].Item, "*omnifocus.Task")
       THEN /\ pc' = "panic"
            /\ UNCHANGED <<idx, completed, of>>
       ELSE \E err \in BOOLEAN :
                IF err
                THEN /\ pc' = "fatal"
                     /\ UNCHANGED <<idx, completed, of>>
                ELSE /\ completed' = completed \cup {ops[idx].Item.ID}
                     /\ of' = MarkOmnifocusTaskComplete(of, ops[idx].Item)
                     /\ idx' = idx + 1
                     /\ pc' = pc
    /\ UNCHANGED <<ignoreTags, currentIssues, desiredIssues, desired, current, ops, created>>
    /\ UNCHANGED <<entry, cat, github, currentState, desiredState, got>>

\* the loop over d of a category other than the last is exhausted: the next
\* category's delta follows
SyncNextCategory ==
    /\ pc = "apply"
    /\ idx > Len(ops)
    /\ cat < 4
    /\ cat' = cat + 1
    /\ pc' = "delta"
    /\ UNCHANGED deltaVars
    /\ UNCHANGED <<entry, of, github, currentState, desiredState, got>>

\* the loop over d of the last category is exhausted: sync_github returns and
\* main goes on to the next configuration entry, or ends after the last
SyncReturn ==
    /\ pc = "apply"
    /\ idx > Len(ops)
    /\ cat = 4
    /\ IF entry < MaxEntries
       THEN /\ entry' = entry + 1
            /\ cat' = 1
            /\ pc' = "sync"
            /\ currentState' = EmptyOFState
            /\ desiredState' = EmptyGHState
            /\ desired' = EmptyMap
            /\ current' = EmptyMap
            /\ ops' = << >>
            /\ idx' = 1
            /\ got' = 0
       ELSE /\ pc' = "done"
            /\ UNCHANGED <<entry, cat, currentState, desiredState, desired, current, ops, idx,
                           got>>
    /\ UNCHANGED <<ignoreTags, currentIssues, desiredIssues, completed, created, of, github>>

NextRun ==
    \/ SyncNewGateway
    \/ SyncGetOFState
    \/ SyncGetGitHubState
    \/ SyncDelta
    \/ SyncAdd
    \/ SyncRemove
    \/ SyncNextCategory
    \/ SyncReturn

SpecRun == InitRun /\ [][NextRun]_vars

(***************************************************************************)
(* Two runs in a row: every operation of the runs before the last is       *)
(* applied successfully, and the last run reads the result back.           *)
(***************************************************************************)
\* the pull requests GitHub may report for a/b#1: any labels, no milestone
\* (getPRs sets none)
PRsA == {GitHubItem(KeyA, TitleFix, l, RepoAB, EmptyStr) : l \in SeqsUpTo(LabelPool, MaxLabels)}

\* the remote states with labelled items: a/b#1 as an issue with any labels
\* and milestone, as a pull request with any labels, as a notification
LabelledGitHubStates ==
    [Issues : {<< >>} \cup {<<i>> : i \in ItemsA},
     PRs : {<< >>} \cup {<<i>> : i \in PRsA},
     OpenPRs : {<< >>} \cup {<<i>> : i \in PRsA},
     Notifications : {<< >>, <<ItemA>>}]

\* the documents before the first run: the issue task and the notification
\* task of the pool, or neither
EarlierDocuments ==
    {SelectSeq(OFPool, LAMBDA t : t.ID \in ids) : ids \in SUBSET {"o1", "o4"}}

\* keys without a space: a letter and a tab, up to two bytes
ItemKeys == SeqsUpTo({LetterA[1], Tab[1]}, 2)

\* the remote states with one issue of any such key and any title
TitledGitHubStates ==
    {[EmptyGitHub EXCEPT !.Issues = <<GitHubItem(k, title, << >>, RepoAB, EmptyStr)>>] :
        k \in ItemKeys, title \in TaskNames}

\* main enters sync_github for the first time; the ignore-list names the app
\* tag and the category tags
InitTwoRuns ==
    /\ pc = "sync"
    /\ ignoreTags = BookkeepingTags
    /\ currentIssues = << >>
    /\ desiredIssues = << >>
    /\ desired = EmptyMap
    /\ current = EmptyMap
    /\ ops = << >>
    /\ idx = 1
    /\ completed = {}
    /\ created = << >>
    /\ entry = 1
    /\ cat = 1
    /\ \/ of \in EarlierDocuments /\ github \in LabelledGitHubStates
       \/ of = << >> /\ github \in TitledGitHubStates
    /\ currentState = EmptyOFState
    /\ desiredState = EmptyGHState
    /\ got = 0

\* an Add of a run before the last is applied successfully: og.AddIssue,
\* AddPR, AddAuthoredPR or AddNotification is called with the item and the
\* document gains the task it builds
AddApplied ==
    /\ pc = "apply"
    /\ entry < MaxEntries
    /\ idx <= Len(ops)
    /\ ops[idx].Type = Add
    /\ created' = Append(created, CategoryAddTask(cat, ops[idx].Item))
    /\ of' = AddNewOmnifocusTask(of, CategoryAddTask(cat, ops[idx].Item),
                                 "n" \o ToString(Len(created) + 1))
    /\ idx' = idx + 1
    /\ pc' = pc
    /\ UNCHANGED <<ignoreTags, currentIssues, desiredIssues, desired, current, ops, completed>>
    /\ UNCHANGED <<entry, cat, github, currentState, desiredState, got>>

\* a Remove of a run before the last is applied successfully: og.CompleteIssue,
\* CompletePR or CompleteNotification is called with the task and the
\* document marks it complete
RemoveApplied ==
    /\ pc = "apply"
    /\ entry < MaxEntries
    /\ idx <= Len(ops)
    /\ ops[idx].Type = Remove
    /\ completed' = completed \cup {ops[idx].Item.ID}
    /\ of' = MarkOmnifocusTaskComplete(of, ops[idx].Item)
    /\ idx' = idx + 1
    /\ pc' = pc
    /\ UNCHANGED <<ignoreTags, currentIssues, desiredIssues, desired, current, ops, created>>
    /\ UNCHANGED <<entry, cat, github, currentState, desiredState, got>>

\* a Remove of the last run, as sync_github handles it
LastRunRemove == entry = MaxEntries /\ SyncRemove

\* the last run has no Add step: an Add of its deltas comes after a Remove
\* for the same key, and that Remove ends the run
NextTwoRuns ==
    \/ SyncNewGateway
    \/ SyncGetOFState
    \/ SyncGetGitHubState
    \/ SyncDelta
    \/ AddApplied
    \/ RemoveApplied
    \/ LastRunRemove
    \/ SyncNextCategory
    \/ SyncReturn

SpecTwoRuns == InitTwoRuns /\ [][NextTwoRuns]_vars

(***************************************************************************)
(* Vocabulary of the properties.                                           *)
(***************************************************************************)
\* Delta has returned and its arguments and result are in the state
DeltaDone == pc \in {"apply", "done", "panic"}

\* keys present on both sides
Shared == DOMAIN desired \cap DOMAIN current

\* number of occurrences of x in s
Count(x, s) == Cardinality({i \in 1..Len(s) : s[i] = x})

\* s and t hold the same elements the same number of times
SameBag(s, t) == \A x \in Range(s) \cup Range(t) : Count(x, s) = Count(x, t)

\* the ignore-list, lower-cased, as a set
FoldedIgnore == {StringsToLower(ignoreTags[i]) : i \in 1..Len(ignoreTags)}

\* the lower-cased tags of x, as a sequence and as a set
FoldedTags(x) == [i \in 1..Len(GetTags(x)) |-> StringsToLower(GetTags(x)[i])]
TagSetLower(x) == Range(FoldedTags(x))

\* the lower-cased tags of x that are not ignored
KeptTags(x) == SelectSeq(FoldedTags(x), LAMBDA t : t \notin FoldedIgnore)

\* the normalized tags of the two sides agree for the shared key k
TagsEquivalent(k) == SameBag(FoldedTags(desired[k]), KeptTags(current[k]))

\* the tags of the two sides agree for the shared key k without any case folding
RawEquivalent(k) ==
    SameBag(GetTags(desired[k]),
            SelectSeq(GetTags(current[k]), LAMBDA t : t \notin Range(ignoreTags)))

\* the result holds an operation of the given type for key k
HasOp(type, k) == \E i \in 1..Len(ops) : ops[i].Type = type /\ Key(ops[i].Item) = k

\* the result holds no operation for key k
NoOpFor(k) == ~HasOp(Add, k) /\ ~HasOp(Remove, k)

\* one operation applied to a keyed collection: Add inserts the item under its
\* key, Remove deletes the key
ApplyOp(op, m) ==
    IF op.Type = Add
    THEN [k \in DOMAIN m \cup {Key(op.Item)} |-> IF k = Key(op.Item) THEN op.Item ELSE m[k]]
    ELSE [k \in DOMAIN m \ {Key(op.Item)} |-> m[k]]

\* a sequence of operations applied in emission order
RECURSIVE ApplyOps(_, _)
ApplyOps(o, m) == IF o = << >> THEN m ELSE ApplyOps(Tail(o), ApplyOp(Head(o), m))

\* current after every operation of the result has been applied
Reconciled == ApplyOps(ops, current)

(***************************************************************************)
(* Properties of Delta.                                                    *)
(***************************************************************************)
\* C1 as stated: after the operations are applied to current in emission
\* order, the key set equals desired's key set and every key's lower-cased
\* tag set equals the lower-cased tag set of the desired item.
C1_ConvergenceAsStated ==
    DeltaDone =>
        /\ DOMAIN Reconciled = DOMAIN desired
        /\ \A k \in DOMAIN Reconciled \cap DOMAIN desired :
               TagSetLower(Reconciled[k]) = TagSetLower(desired[k])

\* C1 amended: after the operations are applied to current in emission order,
\* the key set equals desired's key set and every key holds either the desired
\* item itself or a current task whose lower-cased tags, without the tags of
\* the lower-cased ignore-list, form the lower-cased tag set of the desired item.
C1_Convergence ==
    DeltaDone =>
        /\ DOMAIN Reconciled = DOMAIN desired
        /\ \A k \in DOMAIN Reconciled \cap DOMAIN desired :
               \/ Reconciled[k] = desired[k]
               \/ /\ Reconciled[k] = current[k]
                  /\ TagSetLower(current[k]) \ FoldedIgnore = TagSetLower(desired[k])

\* an Add, a Remove and a kept task that still carries an ignored tag
C1_Witness ==
    /\ DeltaDone
    /\ \E i, j \in 1..Len(ops) : ops[i].Type = Add /\ ops[j].Type = Remove
    /\ \E k \in Shared :
           /\ NoOpFor(k)
           /\ TagSetLower(current[k]) # TagSetLower(desired[k])

\* no desired tag is in the ignore-list (which is matched without regard to case)
NoDesiredTagIgnored ==
    \A k \in DOMAIN desired : TagSetLower(desired[k]) \cap FoldedIgnore = {}

\* no tag sequence of either side holds a tag twice
NoDuplicateTags ==
    \A m \in {desired, current} : \A k \in DOMAIN m :
        \A t \in Range(GetTags(m[k])) : Count(t, GetTags(m[k])) = 1

\* C2: when no desired tag is ignored and no tag sequence has duplicates,
\* Delta on desired and the reconciled collection returns no operation,
\* whatever order the maps are visited in.
C2_Idempotence ==
    (DeltaDone /\ NoDesiredTagIgnored /\ NoDuplicateTags) =>
        \A dOrd \in Orders(DOMAIN desired), cOrd \in Orders(DOMAIN Reconciled) :
            Delta(desired, Reconciled, ignoreTags, dOrd, cOrd) = << >>

\* a first result that re-creates one key and adds or removes another
C2_Witness ==
    /\ DeltaDone /\ NoDesiredTagIgnored /\ NoDuplicateTags
    /\ Len(ops) >= 3
    /\ \E k \in Shared : HasOp(Add, k) /\ HasOp(Remove, k)

\* C3: every key of desired that current lacks gets an Add carrying its
\* desired item, and no Add is for a key that desired lacks.
C3_MissingInCurrent ==
    DeltaDone =>
        /\ \A k \in DOMAIN desired \ DOMAIN current :
               \E i \in 1..Len(ops) : ops[i] = Operation(Add, desired[k])
        /\ \A i \in 1..Len(ops) :
               ops[i].Type = Add => Key(ops[i].Item) \in DOMAIN desired

\* a key only in desired next to a key only in current
C3_Witness ==
    /\ DeltaDone
    /\ DOMAIN desired \ DOMAIN current # {}
    /\ DOMAIN current \ DOMAIN desired # {}
    /\ \E i \in 1..Len(ops) : ops[i].Type = Add

\* C4: every key of current that desired lacks gets a Remove carrying its
\* current task, and a run that has ended, normally or in a panic, has marked
\* that task complete.
C4_ExtraInCurrent ==
    DeltaDone =>
        \A k \in DOMAIN current \ DOMAIN desired :
            /\ \E i \in 1..Len(ops) : ops[i] = Operation(Remove, current[k])
            /\ pc \in {"done", "panic"} => current[k].ID \in completed

\* C5: a shared key whose normalized tags differ gets Remove(current task)
\* and, later in the result, Add(desired item).
C5_TagChanged ==
    DeltaDone =>
        \A k \in Shared :
            ~TagsEquivalent(k) =>
                \E i, j \in 1..Len(ops) :
                    /\ i < j
                    /\ ops[i] = Operation(Remove, current[k])
                    /\ ops[j] = Operation(Add, desired[k])

\* a result that re-creates one key after an operation for another key
C5_Witness ==
    /\ DeltaDone
    /\ \E k \in Shared :
           /\ ~TagsEquivalent(k)
           /\ \E i \in 2..Len(ops) : ops[i] = Operation(Remove, current[k])

\* C6: a shared key whose normalized tags are equal contributes no
\* operation, and when the key sets are identical and all normalized tags
\* are equal the result is empty.
C6_NoSpuriousOps ==
    DeltaDone =>
        /\ \A k \in Shared : TagsEquivalent(k) => NoOpFor(k)
        /\ (DOMAIN desired = DOMAIN current /\ \A k \in Shared : TagsEquivalent(k))
               => ops = << >>

\* two shared keys, equal normalized tags, the tags of one in another order
\* than on the desired side
C6_Witness ==
    /\ DeltaDone
    /\ DOMAIN desired = DOMAIN current
    /\ Cardinality(Shared) = 2
    /\ \A k \in Shared : TagsEquivalent(k)
    /\ \E k \in Shared : FoldedTags(current[k]) # FoldedTags(desired[k])
    /\ ops = << >>

\* the task of shared key k carries a tag that is in the ignore-list and not
\* among the desired item's tags
HasBookkeepingTag(k) ==
    \E t \in TagSetLower(current[k]) :
        t \in FoldedIgnore /\ t \notin TagSetLower(desired[k])

\* C7: a shared key whose task carries an ignored tag the desired item lacks,
\* and whose tags without the ignored ones equal the desired tags, gets no
\* operation.
C7_IgnoreList ==
    DeltaDone =>
        \A k \in Shared : (HasBookkeepingTag(k) /\ TagsEquivalent(k)) => NoOpFor(k)

\* a kept task with a label, the repository tag and an ignored tag
C7_Witness ==
    /\ DeltaDone
    /\ \E k \in Shared :
           /\ HasBookkeepingTag(k)
           /\ TagsEquivalent(k)
           /\ Len(GetTags(desired[k])) >= 2
           /\ NoOpFor(k)

\* C8: a shared key whose tags agree only once letter case is disregarded, in
\* the tags or in the match against the ignore-list, gets no operation.
C8_CaseInsensitive ==
    DeltaDone =>
        \A k \in Shared : (TagsEquivalent(k) /\ ~RawEquivalent(k)) => NoOpFor(k)

\* desired tag "Bug" against current tag "bug", and ignore-list entry
\* "Assigned" against current tag "ASSIGNED", with no operation for the key
C8_Witness ==
    /\ DeltaDone
    /\ ignoreTags = <<TagAssignedMixed>>
    /\ KeyA \in Shared
    /\ TagBugMixed \in Range(GetTags(desired[KeyA]))
    /\ TagBugLower \in Range(GetTags(current[KeyA]))
    /\ TagAssignedUpper \in Range(GetTags(current[KeyA]))
    /\ NoOpFor(KeyA)

\* C9: a key has both an Add and a Remove in the result only if it is on both
\* sides with differing normalized tags; a key on one side only has an Add
\* or a Remove and not both; every operation is for a key of desired or
\* current.
C9_AddAndRemove ==
    DeltaDone =>
        /\ \A i \in 1..Len(ops) : Key(ops[i].Item) \in DOMAIN desired \cup DOMAIN current
        /\ \A k \in DOMAIN desired \cup DOMAIN current :
               /\ (HasOp(Add, k) /\ HasOp(Remove, k)) => (k \in Shared /\ ~TagsEquivalent(k))
               /\ k \notin Shared => (HasOp(Add, k) # HasOp(Remove, k))

\* one key with both operations next to a key with one operation only
C9_Witness ==
    /\ DeltaDone
    /\ \E k1, k2 \in DOMAIN desired \cup DOMAIN current :
           /\ HasOp(Add, k1) /\ HasOp(Remove, k1)
           /\ HasOp(Add, k2) # HasOp(Remove, k2)

(***************************************************************************)
(* Properties of toSet.                                                    *)
(***************************************************************************)
\* m has one entry per key of l, holding the last element of l with that key
LastWins(m, l) ==
    /\ DOMAIN m = {Key(l[i]) : i \in 1..Len(l)}
    /\ \A i \in 1..Len(l) :
           (\A j \in (i + 1)..Len(l) : Key(l[j]) # Key(l[i])) => m[Key(l[i])] = l[i]

\* C10: toSet is defined on every list, and its result has exactly one entry
\* per distinct key, holding the last element of the list with that key.
C10_ToSet ==
    /\ pc = "ghState" => ENABLED ComputeDelta
    /\ DeltaDone => LastWins(current, currentIssues) /\ LastWins(desired, desiredIssues)

\* a list of three elements, two of them different elements with one key
C10_Witness ==
    /\ DeltaDone
    /\ \E l \in {currentIssues, desiredIssues} :
           /\ Len(l) = 3
           /\ Key(l[1]) = Key(l[3]) /\ l[1] # l[3] /\ Key(l[2]) # Key(l[1])
           /\ Cardinality(DOMAIN toSet(l)) = 2
           /\ toSet(l)[Key(l[3])] = l[3]

(***************************************************************************)
(* Properties of Task.Key.                                                 *)
(***************************************************************************)
\* x is a proper or improper prefix of s that is followed in s, if by
\* anything, by one of the delimiter bytes, and holds no delimiter byte itself
LeadingToken(x, s, delimiters) ==
    /\ Len(x) <= Len(s)
    /\ x = SubSeq(s, 1, Len(x))
    /\ \A i \in 1..Len(x) : x[i] \notin delimiters
    /\ Len(x) < Len(s) => s[Len(x) + 1] \in delimiters

\* the one task of SpecKey and the key toSet stored it under
TheTask == currentIssues[1]
TheKey == CHOOSE k \in DOMAIN current : TRUE

\* C11 as stated: the key is the part of the name before its first whitespace
\* character (space or tab), the whole name when it has none.
C11_TaskKeyAsStated ==
    DeltaDone =>
        /\ Cardinality(DOMAIN current) = 1
        /\ LeadingToken(TheKey, TheTask.Name, {Space[1], Tab[1]})

\* C11 amended: the key is the part of the name before its first space
\* character (empty when the name starts with a space), the whole name when
\* it has no space; a tab does not end the key.
C11_TaskKey ==
    DeltaDone =>
        /\ Cardinality(DOMAIN current) = 1
        /\ LeadingToken(TheKey, TheTask.Name, {Space[1]})
        /\ (\A i \in 1..Len(TheTask.Name) : TheTask.Name[i] # Space[1])
               => TheKey = TheTask.Name

\* a name of the form key, space, title with a space inside the title
C11_Witness ==
    /\ DeltaDone
    /\ TheTask.Name = LetterA \o Space \o LetterA \o Space
    /\ TheKey = LetterA

(***************************************************************************)
(* Properties of a whole run.                                              *)
(***************************************************************************)
\* C12: no step of a run changes what GitHub holds; whatever is complete or
\* missing in OmniFocus, the issues, pull requests and notifications of the
\* remote side stay as they were.
C12_OneDirectional == [][github' = github]_vars

\* the last category's loop was entered while OmniFocus holds a completed
\* task for a notification that GitHub still lists
C12_Witness ==
    /\ pc = "panic"
    /\ cat = 4
    /\ \E i \in 1..Len(of) :
           /\ of[i].Completed
           /\ of[i].Project = NotificationsProject
           /\ TaskKey(of[i]) = KeyA
    /\ github.Notifications = <<ItemA>>

\* the task of the document with the given ID is in category c's project and
\* carries the app tag and category c's type tag
OwnedBy(c, id) ==
    \E i \in 1..Len(of) :
        /\ of[i].ID = id
        /\ of[i].Project = CategoryQuery(c).ProjectName
        /\ AppTag \in Range(of[i].Tags)
        /\ CategoryQuery(c).Tags[2] \in Range(of[i].Tags)

\* the task of the document with the given ID is not completed
Incomplete(id) == \E i \in 1..Len(of) : of[i].ID = id /\ ~of[i].Completed

\* the IDs of the tasks of the document that lack the app tag
Foreign == {of[i].ID : i \in {j \in 1..Len(of) : AppTag \notin Range(of[j].Tags)}}

\* C13: every Remove of a category's delta, which is what the run hands to
\* CompleteIssue, CompletePR or CompleteNotification, carries a task returned
\* by that category's query: in the category's project, with the app tag and
\* the category's type tag, and incomplete until the run completes it; every
\* completed task is such a task; a task lacking the app tag is in no Remove
\* and is never completed.
C13_OwnedTasksOnly ==
    /\ \A i \in 1..Len(ops) :
           ops[i].Type = Remove =>
               /\ OwnedBy(cat, ops[i].Item.ID)
               /\ i >= idx => Incomplete(ops[i].Item.ID)
               /\ ops[i].Item.ID \notin Foreign
    /\ \A id \in completed : (\E c \in 1..4 : OwnedBy(c, id)) /\ id \notin Foreign

\* the run reached the completion of the issue task o1 while the project
\* also holds a task without the app tag and a task of another category
C13_Witness ==
    /\ pc = "panic"
    /\ cat = 1
    /\ ops[idx].Type = Remove
    /\ ops[idx].Item.ID = "o1"
    /\ "f1" \in Foreign
    /\ \E i \in 1..Len(of) : of[i].ID = "o2" /\ of[i].Project = AssignedProject

\* the run has ended in log.Fatal or in a panic
Aborted == pc \in {"fatal", "panic"}

\* this step applies the operation at idx: the task of an Add is created, the
\* task of a Remove is marked complete
AppliesCurrentOp ==
    IF ops[idx].Type = Add
    THEN created' = Append(created, CategoryAddTask(cat, ops[idx].Item))
    ELSE completed' = completed \cup {ops[idx].Item.ID}

\* C14: a step that ends the run while an operation is being applied applies
\* nothing and leaves the loop at that operation; no step follows the end of
\* the run, so no later operation, category or configuration entry is
\* reached; the loop moves past an operation only by applying it, and the
\* run moves to another category or entry, or ends normally, only when every
\* operation of the category has been passed.
C14_FailFast ==
    [][/\ ~Aborted
       /\ (pc = "apply" /\ pc' \in {"fatal", "panic"})
              => (idx <= Len(ops) /\ UNCHANGED <<idx, created, completed, of, cat, entry>>)
       /\ (pc = "apply" /\ idx' # idx /\ pc' = "apply")
              => (idx <= Len(ops) /\ idx' = idx + 1 /\ AppliesCurrentOp)
       /\ (pc = "apply" /\ pc' \in {"delta", "sync", "done"}) => idx > Len(ops)
      ]_vars

\* the first of two operations of the first category failed in the first
\* entry, a later category has work to do, and nothing was applied
C14_Witness ==
    /\ Aborted
    /\ entry = 1 /\ entry < MaxEntries
    /\ cat = 1
    /\ idx = 1 /\ Len(ops) = 2
    /\ toSet(DesiredOf(4)) # EmptyMap /\ toSet(CurrentOf(4)) = EmptyMap
    /\ created = << >> /\ completed = {}

\* what GitHub holds for category c
RemoteOf(c) ==
    CASE c = 1 -> github.Issues
      [] c = 2 -> github.PRs
      [] c = 3 -> github.OpenPRs
      [] c = 4 -> github.Notifications

\* C15: the operations computed for a category are a result of Delta on that
\* category's desired collection (what GitHub holds for it), that category's
\* current collection (what its query finds in OmniFocus) and the
\* ignore-list, whatever the other categories hold and whatever was computed
\* for the categories before it.
C15_CategoryIndependence ==
    (pc \in {"apply", "panic"}) =>
        LET d == toSet(RemoteOf(cat))
            c == toSet(TasksForQuery(of, CategoryQuery(cat)))
        IN /\ desired = d
           /\ current = c
           /\ \E dOrd \in Orders(DOMAIN d), cOrd \in Orders(DOMAIN c) :
                  ops = Delta(d, c, ignoreTags, dOrd, cOrd)

\* a/b#1 is an assigned issue and a pull request to review; its issue task
\* exists and needs nothing, and the review category adds it on its own
C15_Witness ==
    /\ pc = "panic"
    /\ cat = 2
    /\ github.Issues = <<ItemA>> /\ github.PRs = <<ItemA>>
    /\ Len(currentState.Issues) = 1 /\ currentState.PRs = << >>
    /\ ops = <<Operation(Add, ItemA)>>

(***************************************************************************)
(* Further properties of Delta.                                            *)
(***************************************************************************)
\* r is a finite sequence of Add and Remove operations, at most two per key
\* of d and one per key of c, and empty when d and c are empty
IsResult(r, d, c) ==
    /\ \A i \in 1..Len(r) : r[i].Type \in {Add, Remove}
    /\ Len(r) <= 2 * Cardinality(DOMAIN d) + Cardinality(DOMAIN c)
    /\ (d = EmptyMap /\ c = EmptyMap) => r = << >>

\* C16: for every pair of collections and every ignore-list, whatever order
\* the maps are visited in, Delta returns a finite sequence of Add and Remove
\* operations, at most two per desired key and one per current key, which is
\* empty when both collections are empty.
C16_Totality ==
    /\ pc = "ghState" =>
           LET d == toSet(desiredIssues)
               c == toSet(currentIssues)
           IN \A dOrd \in Orders(DOMAIN d), cOrd \in Orders(DOMAIN c) :
                  IsResult(Delta(d, c, ignoreTags, dOrd, cOrd), d, c)
    /\ DeltaDone => IsResult(ops, desired, current)

\* a shared key whose task has no tag at all, next to a task without an item
C16_Witness ==
    /\ DeltaDone
    /\ DOMAIN desired = {KeyA}
    /\ DOMAIN current = {KeyA, KeyB}
    /\ GetTags(current[KeyA]) = << >>
    /\ GetTags(current[KeyB]) = << >>
    /\ Len(ops) = 3

\* C17: every Add carries the desired item stored under its key and every
\* Remove the current task stored under its key, and the caller's conversions
\* d.Item.(*gh.GitHubItem) of an Add payload and d.Item.(*omnifocus.Task) of a
\* Remove payload succeed.
C17_PayloadConversion ==
    DeltaDone =>
        \A i \in 1..Len(ops) :
            IF ops[i].Type = Add
            THEN /\ Key(ops[i].Item) \in DOMAIN desired
                 /\ ops[i].Item = desired[Key(ops[i].Item)]
                 /\ TypeAssert(ops[i].Item, "*gh.GitHubItem")
            ELSE /\ Key(ops[i].Item) \in DOMAIN current
                 /\ ops[i].Item = current[Key(ops[i].Item)]
                 /\ TypeAssert(ops[i].Item, "*omnifocus.Task")

\* C18: a shared key whose lower-cased desired tags and lower-cased,
\* unignored current tags are equal as sets, whatever their order and however
\* often a tag is repeated, gets no operation.
C18_TagsAsSets ==
    DeltaDone =>
        \A k \in Shared :
            (TagSetLower(desired[k]) = Range(KeptTags(current[k]))) => NoOpFor(k)

\* the number of operations of the given type for key k
CountOps(type, k) ==
    Cardinality({i \in 1..Len(ops) : ops[i].Type = type /\ Key(ops[i].Item) = k})

\* C19: a key only in desired has one Add and no Remove, a key only in
\* current one Remove and no Add, a shared key with differing normalized tags
\* one Remove and one Add, a shared key with equal normalized tags nothing;
\* and every operation is for a key of desired or current.
C19_Minimality ==
    DeltaDone =>
        /\ \A i \in 1..Len(ops) : Key(ops[i].Item) \in DOMAIN desired \cup DOMAIN current
        /\ \A k \in DOMAIN desired \ DOMAIN current :
               CountOps(Add, k) = 1 /\ CountOps(Remove, k) = 0
        /\ \A k \in DOMAIN current \ DOMAIN desired :
               CountOps(Add, k) = 0 /\ CountOps(Remove, k) = 1
        /\ \A k \in Shared :
               IF TagsEquivalent(k)
               THEN CountOps(Add, k) = 0 /\ CountOps(Remove, k) = 0
               ELSE CountOps(Add, k) = 1 /\ CountOps(Remove, k) = 1

\* a/b#1 on both sides with differing tags, a/b#2 in current only: three
\* operations
C19_Witness ==
    /\ DeltaDone
    /\ KeyA \in Shared /\ ~TagsEquivalent(KeyA)
    /\ KeyB \in DOMAIN current \ DOMAIN desired
    /\ CountOps(Remove, KeyA) = 1 /\ CountOps(Add, KeyA) = 1 /\ CountOps(Remove, KeyB) = 1
    /\ Len(ops) = 3

\* the desired item of shared key k carries a tag that is in the ignore-list
DesiredCarriesIgnored(k) == TagSetLower(desired[k]) \cap FoldedIgnore # {}

\* C20: a shared key whose desired item carries an ignored tag and whose
\* task carries the same tags gets Remove then Add, and so does the key on
\* the next run, when the task carries the tags of the item again.
C20_IgnoreNotOnDesired ==
    DeltaDone =>
        \A k \in Shared :
            (DesiredCarriesIgnored(k) /\ SameBag(FoldedTags(desired[k]), FoldedTags(current[k])))
                => /\ \E i, j \in 1..Len(ops) :
                          /\ i < j
                          /\ ops[i] = Operation(Remove, current[k])
                          /\ ops[j] = Operation(Add, desired[k])
                   /\ \A dOrd \in Orders({k}), cOrd \in Orders({k}) :
                          LET d == [x \in {k} |-> desired[k]]
                              c == [x \in {k} |->
                                       Task("n", k \o Space \o desired[k].Title, FALSE,
                                            GetTags(desired[k]))]
                          IN Delta(d, c, ignoreTags, dOrd, cOrd)
                                 = <<Operation(Remove, c[k]), Operation(Add, d[k])>>

\* the item is labelled "assigned", the ignore-list holds "Assigned", and the
\* task carries the item's tags in another case and order
C20_Witness ==
    /\ DeltaDone
    /\ KeyA \in Shared
    /\ ignoreTags = <<TagAssignedMixed>>
    /\ GetTags(desired[KeyA]) = <<TagAssignedLower, RepoAB>>
    /\ GetTags(current[KeyA]) = <<RepoAB, TagAssignedUpper>>
    /\ HasOp(Remove, KeyA) /\ HasOp(Add, KeyA)

(***************************************************************************)
(* Properties of the retrievals.                                           *)
(***************************************************************************)
\* C21: the remote retrievals start only after the four local ones
\* succeeded; a delta is computed, and an operation reached, only after all
\* eight retrievals succeeded; and while fewer than eight have succeeded no
\* step computes a delta or creates or completes a task.
C21_AllRetrievalsFirst ==
    [][/\ pc' = "getGH" => got' = Retrievals
       /\ pc' \in {"delta", "apply", "panic", "done"} => got' = 2 * Retrievals
       /\ got < 2 * Retrievals =>
              UNCHANGED <<desired, current, ops, idx, created, completed, of>>
      ]_vars

\* the third remote retrieval failed after six retrievals succeeded; the
\* issue a/b#1 has no task, and no delta was computed
C21_Witness ==
    /\ pc = "fatal"
    /\ got = 6
    /\ github.Issues = <<ItemA>>
    /\ TasksForQuery(of, CategoryQuery(1)) = << >>
    /\ ops = << >> /\ desired = EmptyMap /\ created = << >>

(***************************************************************************)
(* Properties of two runs in a row.                                        *)
(***************************************************************************)
\* the last run computed the delta of the category it is at
LastRunDelta == entry = MaxEntries /\ pc \in {"apply", "panic", "done"}

\* no item GitHub holds carries a tag that, lower-cased, is in the
\* lower-cased ignore-list
RemoteTagsNotIgnored ==
    \A c \in 1..4 : \A i \in 1..Len(RemoteOf(c)) :
        TagSetLower(RemoteOf(c)[i]) \cap FoldedIgnore = {}

NoSpace(s) == \A i \in 1..Len(s) : s[i] # Space[1]

\* C23: for every item GitHub holds whose key contains no space, whatever its
\* title, the task the gateway builds for it in any category has Task.Key()
\* equal to the item's key; and in the run after the task was created, every
\* such item of the category is matched under its key by a task named key,
\* space, title.
C23_KeyRoundTrip ==
    /\ \A c \in 1..4 : \A i \in 1..Len(RemoteOf(c)) :
           NoSpace(ItemKey(RemoteOf(c)[i])) =>
               TaskKey(CategoryAddTask(c, RemoteOf(c)[i])) = ItemKey(RemoteOf(c)[i])
    /\ LastRunDelta =>
           \A k \in DOMAIN desired :
               NoSpace(k) =>
                   /\ k \in DOMAIN current
                   /\ current[k].Name = k \o Space \o desired[k].Title

\* the run before created the task "a<tab> a a" for the issue with key
\* "a<tab>" and title "a a"; the last run matched it under the key "a<tab>"
\* and found nothing to do
C23_Witness ==
    /\ entry = MaxEntries
    /\ pc = "apply"
    /\ cat = 1
    /\ LetterA \o Tab \in DOMAIN desired
    /\ desired[LetterA \o Tab].Title = LetterA \o Space \o LetterA
    /\ LetterA \o Tab \in DOMAIN current
    /\ current[LetterA \o Tab].ID = "n1"
    /\ TaskKey(current[LetterA \o Tab]) = LetterA \o Tab
    /\ ops = << >>

====
